---------------------------- MODULE Spec2Model ----------------------------
(***************************************************************************)
(* List-of-lists storage of NMatrix (ext/nmatrix/storage/list.cpp).        *)
(*                                                                         *)
(* A LIST is a sequence of NODEs [key, val] in link order; a NODE* is the  *)
(* position of the node in its list and NULL is position 0.  At recursion  *)
(* depth 0 a node's val is a scalar (the bytes of a value of the storage's *)
(* dtype), above it a LIST.  size_t arrays (shape, offset, coords,         *)
(* lengths) are sequences read with the code's 0-based index through At.   *)
(*                                                                         *)
(* The heap is the record mem: the LIST_STORAGE structs (stor), the        *)
(* top-level lists they point to (lists), the default values they point to *)
(* (vals) and the allocations that have been freed (freed).  A pointer is  *)
(* the index of its target.                                                *)
(*                                                                         *)
(* left and right are the storages the caller holds as operands, handles   *)
(* the storages not yet released, and out what the last call returned or   *)
(* raised.  Spec is the access protocol of one owner, SpecOne the          *)
(* traversals of one storage and its views, SpecPair the two-operand       *)
(* calls and SpecLife the reference counting.                              *)
(***************************************************************************)
EXTENDS Integers, Sequences, FiniteSets, TLC

VARIABLES mem, left, right, out, handles

vars == <<mem, left, right, out, handles>>

\* Bounds of the model.
MaxCells == 3      \* an owning storage has at most MaxCells elements
MaxViews == 2      \* views taken one of another in the traversal specification
MaxHandles == 3    \* storages the lifecycle specification allocates

Dims == {1, 2}

NULL == 0

At(arr, i) == arr[i + 1]

Min(a, b) == IF a < b THEN a ELSE b

RECURSIVE Pow256(_)
Pow256(n) == IF n = 0 THEN 1 ELSE 256 * Pow256(n - 1)

(***************************************************************************)
(* dtypes: the enumeration value (tag) and DTYPE_SIZES[dtype] (size).      *)
(***************************************************************************)
BYTE    == [name |-> "BYTE",    tag |-> 0, size |-> 1]
INT8    == [name |-> "INT8",    tag |-> 1, size |-> 1]
INT16   == [name |-> "INT16",   tag |-> 2, size |-> 2]
INT32   == [name |-> "INT32",   tag |-> 3, size |-> 4]
FLOAT32 == [name |-> "FLOAT32", tag |-> 5, size |-> 4]
RUBYOBJ == [name |-> "RUBYOBJ", tag |-> 12, size |-> 8]

DTYPE_SIZES(dtype) == dtype.size

\* A Ruby object is a tuple: <<n>> is the Integer n and << >> is nil.
Qnil == << >>

\* The numeric Ruby objects the model passes in.
RubyScalars == {<<0>>, <<1>>, <<Pow256(3)>>}

\* IEEE-754 single precision, little endian, of the RubyScalars.
FloatBytes(n) ==
  CASE n = 0 -> <<0, 0, 0, 0>>
    [] n = 1 -> <<0, 0, 128, 63>>
    [] OTHER -> <<0, 0, 128, 75>>

\* rubyobj_to_cval: a fresh buffer of DTYPE_SIZES[dtype] bytes holding the value.
rubyobj_to_cval(obj, dtype) ==
  IF dtype.name = "FLOAT32" THEN FloatBytes(obj[1])
  ELSE [i \in 1..DTYPE_SIZES(dtype) |-> (obj[1] \div Pow256(i - 1)) % 256]

RECURSIVE LittleEndian(_, _)
LittleEndian(bytes, i) ==
  IF i > Len(bytes) THEN 0 ELSE bytes[i] * Pow256(i - 1) + LittleEndian(bytes, i + 1)

\* rubyobj_from_cval(...).rval: the Ruby object of a C value (integer dtypes).
rubyobj_from_cval(val, dtype) == <<LittleEndian(val, 1)>>

(***************************************************************************)
(* std::memcmp(a, b, n) == 0 for two buffers of Len(a) bytes.  With        *)
(* n > Len(a) the call reads past the end of both allocations: undefined,  *)
(* either answer once the bytes inside the buffers agree.                  *)
(***************************************************************************)
MemcmpEqual(a, b, n) ==
  IF \E i \in 1..Min(n, Len(a)) : a[i] # b[i] THEN {FALSE}
  ELSE IF n > Len(a) THEN {TRUE, FALSE}
  ELSE {TRUE}

(***************************************************************************)
(* util/sl_list: the ordered singly-linked list.                           *)
(***************************************************************************)
list_create == << >>

NewNode(key, val) == [key |-> key, val |-> val]

SpliceAt(l, pos, node) == SubSeq(l, 1, pos) \o <<node>> \o SubSeq(l, pos + 1, Len(l))

RemoveAt(l, pos) == SubSeq(l, 1, pos - 1) \o SubSeq(l, pos + 1, Len(l))

\* list::find: scan while the key is smaller than the target.
RECURSIVE find_from(_, _, _)
find_from(l, i, key) ==
  IF i > Len(l) \/ l[i].key > key THEN NULL
  ELSE IF l[i].key = key THEN i
  ELSE find_from(l, i + 1, key)

list_find(l, key) == find_from(l, 1, key)

\* list::insert_after: splice after a known predecessor.
list_insert_after(l, node, key, val) ==
  [list |-> SpliceAt(l, node, NewNode(key, val)), node |-> node + 1]

\* The last node, from node i on, whose successor's key does not exceed key.
RECURSIVE find_nearest_from(_, _, _)
find_nearest_from(l, i, key) ==
  IF i < Len(l) /\ l[i + 1].key <= key THEN find_nearest_from(l, i + 1, key) ELSE i

\* list::insert: in key order; an existing key is replaced or, without replace, kept.
list_insert(l, replace, key, val) ==
  IF Len(l) = 0 \/ key < l[1].key
  THEN [list |-> <<NewNode(key, val)>> \o l, node |-> 1]
  ELSE LET ins == find_nearest_from(l, 1, key)
       IN IF l[ins].key = key
          THEN [list |-> IF replace THEN [l EXCEPT ![ins].val = val] ELSE l, node |-> ins]
          ELSE list_insert_after(l, ins, key, val)

\* list::insert_copy: insert of a byte-wise copy of val.
list_insert_copy(l, replace, key, val) == list_insert(l, replace, key, val)

\* list::replace_insert_after: replace the successor's value when it has the key, else splice.
list_replace_insert_after(l, node, key, val) ==
  IF node < Len(l) /\ l[node + 1].key = key
  THEN [list |-> [l EXCEPT ![node + 1].val = val], node |-> node + 1]
  ELSE list_insert_after(l, node, key, val)

\* list::insert_helper: after the cursor when there is one, else from the head.
list_insert_helper(l, node, key, val) ==
  IF node # NULL THEN list_insert_after(l, node, key, val)
  ELSE list_insert(l, FALSE, key, val)

\* list::remove_recursive: the list without the slice's range, emptied sublists pruned.
RECURSIVE remove_recursive(_, _, _, _, _, _)
RemoveNode(l, i, coords, offset, lengths, r, dim) ==
  LET lo == At(coords, r) + At(offset, r)
      inside == l[i].key >= lo /\ l[i].key < lo + At(lengths, r)
  IN IF ~inside THEN <<l[i]>>
     ELSE IF r < dim - 1
     THEN LET sub == remove_recursive(l[i].val, coords, offset, lengths, r + 1, dim)
          IN IF Len(sub) = 0 THEN << >> ELSE <<[l[i] EXCEPT !.val = sub]>>
     ELSE << >>

RECURSIVE RemoveFrom(_, _, _, _, _, _, _)
RemoveFrom(l, i, coords, offset, lengths, r, dim) ==
  IF i > Len(l) THEN << >>
  ELSE RemoveNode(l, i, coords, offset, lengths, r, dim)
         \o RemoveFrom(l, i + 1, coords, offset, lengths, r, dim)

remove_recursive(l, coords, offset, lengths, r, dim) ==
  RemoveFrom(l, 1, coords, offset, lengths, r, dim)

(***************************************************************************)
(* The heap.                                                               *)
(***************************************************************************)
EmptyMem == [stor |-> << >>, lists |-> << >>, vals |-> << >>, freed |-> {}]

\* ALLOC of a default value, of a LIST, of a LIST_STORAGE.
AllocVal(m, v) == [m EXCEPT !.vals = Append(@, v)]

AllocList(m, l) == [m EXCEPT !.lists = Append(@, l)]

LastVal(m) == Len(m.vals)

LastList(m) == Len(m.lists)

LastStor(m) == Len(m.stor)

Zeros(dim) == [i \in 1..dim |-> 0]

Rows(m, s) == m.lists[m.stor[s].rows]

DefaultVal(m, s) == m.vals[m.stor[s].default_val]

IsOwner(m, s) == m.stor[s].src = s

(***************************************************************************)
(* Lifecycle.                                                              *)
(***************************************************************************)
\* nm_list_storage_create: init_val is a pointer that becomes the storage's.
nm_list_storage_create(m, dtype, shape, dim, init_val) ==
  LET m1 == AllocList(m, list_create)
      s  == LastStor(m1) + 1
  IN [m1 EXCEPT !.stor = Append(@, [dim |-> dim, shape |-> shape, dtype |-> dtype,
                                    offset |-> Zeros(dim), rows |-> LastList(m1),
                                    default_val |-> init_val, count |-> 1, src |-> s])]


\* nm_list_storage_delete: the owner's fields go when the count drops from 1.
nm_list_storage_delete(m, s) ==
  LET m1 == [m EXCEPT !.stor[s].count = @ - 1]
  IN IF m.stor[s].count = 1
     THEN [m1 EXCEPT !.freed = @ \cup {<<"rows", m.stor[s].rows>>, <<"shape", s>>,
                                        <<"offset", s>>, <<"default_val", m.stor[s].default_val>>,
                                        <<"storage", s>>}]
     ELSE m1

\* nm_list_storage_delete_ref freeing the view's own arrays only, the source not released.
nm_list_storage_delete_ref_KeepsSource(m, s) ==
  [m EXCEPT !.freed = @ \cup {<<"shape", s>>, <<"offset", s>>, <<"storage", s>>}]

\* nm_list_storage_delete_ref: release the source, free the view's own arrays.
nm_list_storage_delete_ref(m, s) ==
  LET m1 == nm_list_storage_delete(m, m.stor[s].src)
  IN [m1 EXCEPT !.freed = @ \cup {<<"shape", s>>, <<"offset", s>>, <<"storage", s>>}]

(***************************************************************************)
(* Slices.                                                                 *)
(***************************************************************************)
Slice(coords, lengths) ==
  [coords |-> coords, lengths |-> lengths,
   single |-> \A i \in 1..Len(lengths) : lengths[i] = 1]

RECURSIVE Product(_, _)
Product(shape, i) == IF i > Len(shape) THEN 1 ELSE shape[i] * Product(shape, i + 1)

\* The shapes of at most n elements.
Shapes(n) == {sh \in UNION {[1..d -> 1..n] : d \in Dims} : Product(sh, 1) <= n}

MaxAxis(shape) == CHOOSE a \in {shape[i] : i \in 1..Len(shape)} :
                    \A i \in 1..Len(shape) : shape[i] <= a

\* The in-range slices of a shape.
Slices(shape) ==
  LET dim == Len(shape)
      top == MaxAxis(shape)
  IN {Slice(c, l) : <<c, l>> \in
        {p \in [1..dim -> 0..(top - 1)] \X [1..dim -> 1..top] :
           \A i \in 1..dim : p[1][i] + p[2][i] <= shape[i]}}

SingleSlice(coords) == Slice(coords, [i \in 1..Len(coords) |-> 1])

\* The index tuples of a shape, and those a slice covers.
Indices(shape) == {c \in [1..Len(shape) -> 0..(MaxAxis(shape) - 1)] :
                     \A i \in 1..Len(shape) : c[i] < shape[i]}

CoordsIn(slice) ==
  {c \in [1..Len(slice.coords) -> 0..(MaxAxis(slice.coords) + MaxAxis(slice.lengths))] :
     \A i \in 1..Len(slice.coords) :
        c[i] >= slice.coords[i] /\ c[i] < slice.coords[i] + slice.lengths[i]}

(***************************************************************************)
(* Accessors.                                                              *)
(***************************************************************************)
memcpy(src, n) == [i \in 1..n |-> src[i]]

\* list_storage_get_single_node: the leaf node at the slice's coords, or NULL.
RECURSIVE GetSingleFrom(_, _, _, _)
GetSingleFrom(s, l, slice, r) ==
  LET n == list_find(l, At(s.offset, r) + At(slice.coords, r))
  IN IF n = NULL THEN [node |-> NULL]
     ELSE IF r + 1 < s.dim THEN GetSingleFrom(s, l[n].val, slice, r + 1)
     ELSE [node |-> n, val |-> l[n].val]

list_storage_get_single_node(m, s, slice) ==
  GetSingleFrom(m.stor[s], Rows(m, s), slice, 0)

\* A LIST* that list::create() returned is not NULL.
NotNull(list) == TRUE

\* slice_copy: the nodes of src_rows inside the slice, keyed from the slice's base.
RECURSIVE slice_copy(_, _, _, _, _)
RECURSIVE SliceCopyFrom(_, _, _, _, _, _, _)
SliceCopyFrom(src, src_rows, i, dst_rows, coords, lengths, n) ==
  IF i > Len(src_rows) THEN dst_rows
  ELSE LET key == src_rows[i].key - (At(src.offset, n) + At(coords, n))
           dst == IF key >= 0 /\ key < At(lengths, n)
                  THEN IF src.dim - n > 1
                       THEN LET val == slice_copy(src, src_rows[i].val, coords, lengths, n + 1)
                            IN IF NotNull(val)
                               THEN list_insert_copy(dst_rows, FALSE, key, val).list
                               ELSE dst_rows
                       ELSE list_insert_copy(dst_rows, FALSE, key, src_rows[i].val).list
                  ELSE dst_rows
       IN SliceCopyFrom(src, src_rows, i + 1, dst, coords, lengths, n)

slice_copy(src, src_rows, coords, lengths, n) ==
  SliceCopyFrom(src, src_rows, 1, list_create, coords, lengths, n)

\* The single branch of get and ref: the node's value, or the default.
SingleValue(m, s, slice) ==
  LET n == list_storage_get_single_node(m, s, slice)
  IN IF n.node # NULL THEN n.val ELSE DefaultVal(m, s)

\* nm_list_storage_get: [mem, ret]; ret is the value, or the new owning storage.
nm_list_storage_get(m, s, slice) ==
  IF slice.single THEN [mem |-> m, ret |-> SingleValue(m, s, slice)]
  ELSE LET st == m.stor[s]
           m1 == AllocVal(m, memcpy(DefaultVal(m, s), DTYPE_SIZES(st.dtype)))
           m2 == nm_list_storage_create(m1, st.dtype, slice.lengths, st.dim, LastVal(m1))
           ns == LastStor(m2)
           m3 == AllocList(m2, slice_copy(st, Rows(m, s), slice.coords, slice.lengths, 0))
       IN [mem |-> [m3 EXCEPT !.stor[ns].rows = LastList(m3)], ret |-> ns]

\* nm_list_storage_ref with the view's offset taken from the slice's lengths.
nm_list_storage_ref_OffsetFromLengths(m, s, slice) ==
  IF slice.single THEN [mem |-> m, ret |-> SingleValue(m, s, slice)]
  ELSE LET st == m.stor[s]
           ns == [dim |-> st.dim, dtype |-> st.dtype,
                  offset |-> [i \in 1..st.dim |-> slice.lengths[i] + st.offset[i]],
                  shape |-> [i \in 1..st.dim |-> slice.lengths[i]],
                  rows |-> st.rows, default_val |-> st.default_val,
                  count |-> 0,
                  src |-> st.src]
           m1 == [m EXCEPT !.stor[st.src].count = @ + 1]
       IN [mem |-> [m1 EXCEPT !.stor = Append(@, ns)], ret |-> LastStor(m) + 1]

\* nm_list_storage_ref with the view's src set to the storage it was taken of.
nm_list_storage_ref_SrcIsParent(m, s, slice) ==
  IF slice.single THEN [mem |-> m, ret |-> SingleValue(m, s, slice)]
  ELSE LET st == m.stor[s]
           ns == [dim |-> st.dim, dtype |-> st.dtype,
                  offset |-> [i \in 1..st.dim |-> slice.coords[i] + st.offset[i]],
                  shape |-> [i \in 1..st.dim |-> slice.lengths[i]],
                  rows |-> st.rows, default_val |-> st.default_val,
                  count |-> 0,
                  src |-> s]
           m1 == [m EXCEPT !.stor[st.src].count = @ + 1]
       IN [mem |-> [m1 EXCEPT !.stor = Append(@, ns)], ret |-> LastStor(m) + 1]

\* nm_list_storage_ref: [mem, ret]; ret is the value, or the new view.
nm_list_storage_ref(m, s, slice) ==
  IF slice.single THEN [mem |-> m, ret |-> SingleValue(m, s, slice)]
  ELSE LET st == m.stor[s]
           ns == [dim |-> st.dim, dtype |-> st.dtype,
                  offset |-> [i \in 1..st.dim |-> slice.coords[i] + st.offset[i]],
                  shape |-> [i \in 1..st.dim |-> slice.lengths[i]],
                  rows |-> st.rows, default_val |-> st.default_val,
                  count |-> 0,   \* never initialised, never read
                  src |-> st.src]
           m1 == [m EXCEPT !.stor[st.src].count = @ + 1]
       IN [mem |-> [m1 EXCEPT !.stor = Append(@, ns)], ret |-> LastStor(m) + 1]

\* nm_list_storage_copy handing the source's rows over as they are, source keys kept.
nm_list_storage_copy_WholeRows(m, rhs) ==
  LET st == m.stor[rhs]
      m1 == AllocVal(m, memcpy(DefaultVal(m, rhs), DTYPE_SIZES(st.dtype)))
      m2 == nm_list_storage_create(m1, st.dtype, memcpy(st.shape, st.dim), st.dim, LastVal(m1))
      lhs == LastStor(m2)
      m3 == AllocList(m2, Rows(m, rhs))
  IN [mem |-> [m3 EXCEPT !.stor[lhs].rows = LastList(m3)], ret |-> lhs]

\* nm_list_storage_copy: [mem, ret].
nm_list_storage_copy(m, rhs) ==
  LET st == m.stor[rhs]
      m1 == AllocVal(m, memcpy(DefaultVal(m, rhs), DTYPE_SIZES(st.dtype)))
      m2 == nm_list_storage_create(m1, st.dtype, memcpy(st.shape, st.dim), st.dim, LastVal(m1))
      lhs == LastStor(m2)
      m3 == AllocList(m2, slice_copy(st, Rows(m, rhs), m2.stor[lhs].offset, m2.stor[lhs].shape, 0))
  IN [mem |-> [m3 EXCEPT !.stor[lhs].rows = LastList(m3)], ret |-> lhs]

\* slice_set_single: l with val written at every coordinate of the slice.
RECURSIVE slice_set_single(_, _, _, _, _, _)
RECURSIVE SetRanks(_, _, _, _, _, _, _, _)
\* The rank loop of slice_set_single splicing a new rank after the cursor every time,
\* the key of the next node not looked at.
SetRanks_AlwaysSplices(dest, l, node, i, val, coords, lengths, n) ==
  IF i >= At(lengths, n) THEN l
  ELSE LET key == i + At(dest.offset, n) + At(coords, n)
           at == IF node = NULL THEN list_insert(l, FALSE, key, list_create)
                 ELSE list_insert_after(l, node, key, list_create)
           sub == slice_set_single(dest, at.list[at.node].val, val, coords, lengths, n + 1)
       IN SetRanks(dest, [at.list EXCEPT ![at.node].val = sub], at.node, i + 1,
                   val, coords, lengths, n)

SetRanks(dest, l, node, i, val, coords, lengths, n) ==
  IF i >= At(lengths, n) THEN l
  ELSE LET key == i + At(dest.offset, n) + At(coords, n)
           at == IF node = NULL THEN list_insert(l, FALSE, key, list_create)
                 ELSE IF node = Len(l) \/ l[node + 1].key > key
                 THEN list_insert_after(l, node, key, list_create)
                 ELSE [list |-> l, node |-> node + 1]
           sub == slice_set_single(dest, at.list[at.node].val, val, coords, lengths, n + 1)
       IN SetRanks(dest, [at.list EXCEPT ![at.node].val = sub], at.node, i + 1,
                   val, coords, lengths, n)

RECURSIVE SetLeaves(_, _, _, _, _, _, _, _)
SetLeaves(dest, l, node, i, val, coords, lengths, n) ==
  IF i >= At(lengths, n) THEN l
  ELSE LET key == i + At(dest.offset, n) + At(coords, n)
           at == IF node = NULL
                 THEN list_insert_copy(l, TRUE, key, memcpy(val, DTYPE_SIZES(dest.dtype)))
                 ELSE list_replace_insert_after(l, node, key, memcpy(val, DTYPE_SIZES(dest.dtype)))
       IN SetLeaves(dest, at.list, at.node, i + 1, val, coords, lengths, n)

slice_set_single(dest, l, val, coords, lengths, n) ==
  IF dest.dim - n > 1 THEN SetRanks(dest, l, NULL, 0, val, coords, lengths, n)
  ELSE SetLeaves(dest, l, NULL, 0, val, coords, lengths, n)

\* What the right-hand side of a slice assignment can be.
RightValues == {[type |-> "T_DATA", dfree |-> "nm_delete"],
                [type |-> "T_DATA", dfree |-> "nm_delete_ref"],
                [type |-> "T_DATA", dfree |-> "other"]}
               \cup {[type |-> "numeric", value |-> obj] : obj \in RubyScalars}

\* The exception nm_list_storage_set raises for a right-hand side, or "none".
SetRaises(rhs) ==
  IF rhs.type = "T_DATA"
  THEN IF rhs.dfree \in {"nm_delete", "nm_delete_ref"} THEN "NotImpError" ELSE "TypeError"
  ELSE "none"

\* The length nm_list_storage_set hands to std::memcmp.
SetCompareLength(dtype) == dtype.tag

\* SetScalar with the removal reaching the slice's first coordinate only.
SetScalar_RemovesFirstOnly(m, s, slice, val, remove) ==
  LET st == m.stor[s]
  IN IF remove
     THEN [m EXCEPT !.lists[st.rows] =
             remove_recursive(@, slice.coords, st.offset, [i \in 1..st.dim |-> 1], 0, st.dim)]
     ELSE [m EXCEPT !.lists[st.rows] =
             slice_set_single(st, @, val, slice.coords, slice.lengths, 0)]

\* The scalar branch of nm_list_storage_set, remove being what the memcmp test gave.
SetScalar(m, s, slice, val, remove) ==
  LET st == m.stor[s]
  IN IF remove
     THEN [m EXCEPT !.lists[st.rows] =
             remove_recursive(@, slice.coords, st.offset, slice.lengths, 0, st.dim)]
     ELSE [m EXCEPT !.lists[st.rows] =
             slice_set_single(st, @, val, slice.coords, slice.lengths, 0)]

\* nm_list_storage_insert: val placed at the slice's coords, the ranks above it made
\* where they are missing.
RECURSIVE InsertFrom(_, _, _, _, _)
InsertFrom(s, l, slice, val, r) ==
  LET key == At(s.offset, s.dim - r) + At(slice.coords, s.dim - r)
  IN IF r > 1
     THEN LET n == list_insert(l, FALSE, key, list_create)
          IN [n.list EXCEPT ![n.node].val = InsertFrom(s, n.list[n.node].val, slice, val, r - 1)]
     ELSE list_insert(l, TRUE, key, val).list

nm_list_storage_insert(m, storage, slice, val) ==
  [m EXCEPT !.lists[m.stor[storage].rows] = InsertFrom(m.stor[storage], @, slice, val, m.stor[storage].dim)]

\* nm_list_storage_remove.
nm_list_storage_remove(m, storage, slice) ==
  LET s == m.stor[storage]
  IN [m EXCEPT !.lists[s.rows] = remove_recursive(@, slice.coords, s.offset, slice.lengths, 0, s.dim)]

(***************************************************************************)
(* RecurseData: a storage resolved to the storage that owns its rows.      *)
(***************************************************************************)
RECURSIVE RecurseWalk(_, _, _, _)
RecurseWalk(m, dim, actual, offsets) ==
  IF m.stor[actual].src # actual
  THEN RecurseWalk(m, dim, m.stor[actual].src,
                   [i \in 1..dim |-> offsets[i] + m.stor[actual].offset[i]])
  ELSE [actual |-> actual, offsets |-> offsets]

RecurseData(m, s, init_obj__) ==
  LET st == m.stor[s]
      w  == RecurseWalk(m, st.dim, s, Zeros(st.dim))
  IN [ref |-> s, actual |-> w.actual, dim |-> st.dim, dtype |-> st.dtype,
      shape_ |-> st.shape, actual_shape_ |-> m.stor[w.actual].shape,
      offsets |-> w.offsets, init_ |-> st.default_val,
      init_obj_ |-> IF init_obj__ = Qnil
                    THEN IF st.dtype = RUBYOBJ THEN m.vals[st.default_val]
                         ELSE rubyobj_from_cval(m.vals[st.default_val], st.dtype)
                    ELSE init_obj__]

ref_shape(rd, rec) == At(rd.shape_, rd.dim - rec - 1)

actual_shape(rd, rec) == At(rd.actual_shape_, rd.dim - rec - 1)

offset(rd, rec) == At(rd.offsets, rd.dim - rec - 1)

init(m, rd) == m.vals[rd.init_]

top_level_list(m, rd) == m.lists[m.stor[rd.actual].rows]

\* The Ruby object of a stored C value: the VALUE itself for RUBYOBJ.
RubyValue(rd, val) == IF rd.dtype = RUBYOBJ THEN val ELSE rubyobj_from_cval(val, rd.dtype)

\* The Ruby object the dense traversals pass for an absent element.
EmptyValue(m, rd) == IF rd.dtype = RUBYOBJ THEN init(m, rd) ELSE rd.init_obj_

(***************************************************************************)
(* Cursors: l->first, curr->next, the skip to the view's first key and the *)
(* cut at the view's end.                                                  *)
(***************************************************************************)
First(l) == IF Len(l) > 0 THEN 1 ELSE NULL

NextNode(l, curr) == IF curr < Len(l) THEN curr + 1 ELSE NULL

RECURSIVE SkipBelow(_, _, _)
SkipBelow(l, curr, off) ==
  IF curr # NULL /\ l[curr].key < off THEN SkipBelow(l, NextNode(l, curr), off) ELSE curr

CutAt(l, curr, off, shape) ==
  IF curr # NULL /\ l[curr].key - off >= shape THEN NULL ELSE curr

(***************************************************************************)
(* each_with_indices and each_stored_with_indices: the sequence of the     *)
(* argument lists <<value, i, j, ...>> the block is yielded.               *)
(***************************************************************************)
RECURSIVE each_empty_with_indices_r(_, _, _, _)
RECURSIVE EachEmptyLoop(_, _, _, _, _)
EachEmptyLoop(m, s, rec, stack, index) ==
  IF index >= ref_shape(s, rec) THEN << >>
  ELSE (IF rec > 0 THEN each_empty_with_indices_r(m, s, rec - 1, Append(stack, index))
        ELSE <<Append(stack, index)>>)
       \o EachEmptyLoop(m, s, rec, stack, index + 1)

each_empty_with_indices_r(m, s, rec, stack) ==
  IF rec > 0 THEN EachEmptyLoop(m, s, rec, stack, 0)
  ELSE EachEmptyLoop(m, s, rec, <<EmptyValue(m, s)>> \o stack, 0)

RECURSIVE each_with_indices_r(_, _, _, _, _)
RECURSIVE EachLoop(_, _, _, _, _, _, _)
EachLoop(m, s, l, rec, stack, index, curr) ==
  IF index >= ref_shape(s, rec) THEN << >>
  ELSE LET absent == curr = NULL \/ index < l[curr].key - offset(s, rec)
           pushed == Append(stack, index)
       IN (IF rec > 0
           THEN IF absent THEN each_empty_with_indices_r(m, s, rec - 1, pushed)
                ELSE each_with_indices_r(m, s, l[curr].val, rec - 1, pushed)
           ELSE IF absent THEN <<<<EmptyValue(m, s)>> \o pushed>>
                ELSE <<<<RubyValue(s, l[curr].val)>> \o pushed>>)
          \o EachLoop(m, s, l, rec, stack, index + 1,
                      IF absent THEN curr ELSE NextNode(l, curr))

\* each_with_indices_r starting at the head of the list, nodes before the view not skipped.
each_with_indices_r_FromHead(m, s, l, rec, stack) ==
  EachLoop(m, s, l, rec, stack, 0, First(l))

each_with_indices_r(m, s, l, rec, stack) ==
  EachLoop(m, s, l, rec, stack, 0,
           CutAt(l, SkipBelow(l, First(l), offset(s, rec)), offset(s, rec), ref_shape(s, rec)))

RECURSIVE each_stored_with_indices_r(_, _, _, _, _)
RECURSIVE EachStoredLoop(_, _, _, _, _, _)
\* The loop of each_stored_with_indices_r pushing the source key, the offset not taken off.
EachStoredLoop_SourceKeys(m, s, l, rec, stack, curr) ==
  IF curr = NULL THEN << >>
  ELSE LET pushed == Append(stack, l[curr].key)
       IN (IF rec > 0 THEN each_stored_with_indices_r(m, s, l[curr].val, rec - 1, pushed)
           ELSE <<<<RubyValue(s, l[curr].val)>> \o pushed>>)
          \o EachStoredLoop(m, s, l, rec, stack,
                            CutAt(l, NextNode(l, curr), offset(s, rec), ref_shape(s, rec)))

EachStoredLoop(m, s, l, rec, stack, curr) ==
  IF curr = NULL THEN << >>
  ELSE LET pushed == Append(stack, l[curr].key - offset(s, rec))
       IN (IF rec > 0 THEN each_stored_with_indices_r(m, s, l[curr].val, rec - 1, pushed)
           ELSE <<<<RubyValue(s, l[curr].val)>> \o pushed>>)
          \o EachStoredLoop(m, s, l, rec, stack,
                            CutAt(l, NextNode(l, curr), offset(s, rec), ref_shape(s, rec)))

each_stored_with_indices_r(m, s, l, rec, stack) ==
  EachStoredLoop(m, s, l, rec, stack,
                 CutAt(l, SkipBelow(l, First(l), offset(s, rec)), offset(s, rec), ref_shape(s, rec)))

nm_list_each_with_indices(m, nmatrix, stored) ==
  LET sdata == RecurseData(m, nmatrix, Qnil)
  IN IF stored
     THEN each_stored_with_indices_r(m, sdata, top_level_list(m, sdata), sdata.dim - 1, << >>)
     ELSE each_with_indices_r(m, sdata, top_level_list(m, sdata), sdata.dim - 1, << >>)

(***************************************************************************)
(* Equality: eqeq_empty_r, eqeq_r, nm_list_storage_eqeq.                   *)
(***************************************************************************)
RECURSIVE eqeq_empty_r(_, _, _, _, _)
RECURSIVE EqEmptyLoop(_, _, _, _, _, _)
EqEmptyLoop(m, s, l, rec, t_init, curr) ==
  IF curr = NULL THEN TRUE
  ELSE IF rec > 0 /\ ~eqeq_empty_r(m, s, l[curr].val, rec - 1, t_init) THEN FALSE
  ELSE IF rec = 0 /\ l[curr].val # t_init THEN FALSE
  ELSE EqEmptyLoop(m, s, l, rec, t_init,
                   CutAt(l, NextNode(l, curr), offset(s, rec), ref_shape(s, rec)))

eqeq_empty_r(m, s, l, rec, t_init) ==
  EqEmptyLoop(m, s, l, rec, t_init,
              CutAt(l, SkipBelow(l, First(l), offset(s, rec)), offset(s, rec), ref_shape(s, rec)))

\* Which cursor the merge advances: the left when the right is exhausted or behind it.
LeftFirst(lf, rt, l, r, lcurr, rcurr, rec) ==
  rcurr = NULL \/ (lcurr # NULL /\ l[lcurr].key - offset(lf, rec) < r[rcurr].key - offset(rt, rec))

RightFirst(lf, rt, l, r, lcurr, rcurr, rec) ==
  lcurr = NULL \/ (rcurr # NULL /\ r[rcurr].key - offset(rt, rec) < l[lcurr].key - offset(lf, rec))

RECURSIVE eqeq_r(_, _, _, _, _, _)
RECURSIVE EqRanks(_, _, _, _, _, _, _, _, _)
EqRanks(m, lf, rt, l, r, rec, lcurr, rcurr, compared) ==
  IF lcurr = NULL /\ rcurr = NULL
  THEN IF ~compared THEN init(m, lf) = init(m, rt) ELSE TRUE
  ELSE LET lfirst == LeftFirst(lf, rt, l, r, lcurr, rcurr, rec)
           rfirst == ~lfirst /\ RightFirst(lf, rt, l, r, lcurr, rcurr, rec)
           same   == IF lfirst THEN eqeq_empty_r(m, lf, l[lcurr].val, rec - 1, init(m, rt))
                     ELSE IF rfirst THEN eqeq_empty_r(m, rt, r[rcurr].val, rec - 1, init(m, lf))
                     ELSE eqeq_r(m, lf, rt, l[lcurr].val, r[rcurr].val, rec - 1)
           lnext  == IF rfirst THEN lcurr ELSE NextNode(l, lcurr)
           rnext  == IF lfirst THEN rcurr ELSE NextNode(r, rcurr)
       IN IF ~same THEN FALSE
          ELSE EqRanks(m, lf, rt, l, r, rec,
                       CutAt(l, lnext, offset(lf, rec), ref_shape(lf, rec)),
                       CutAt(r, rnext, offset(rt, rec), ref_shape(rt, rec)), TRUE)

RECURSIVE EqLeaves(_, _, _, _, _, _, _, _, _)
\* The leaf loop of eqeq_r comparing a node only the right holds with the right's own
\* default instead of the left's.
EqLeaves_RightOwnDefault(m, lf, rt, l, r, rec, lcurr0, rcurr0, compared) ==
  IF lcurr0 = NULL /\ rcurr0 = NULL
  THEN IF ~compared THEN init(m, lf) = init(m, rt) ELSE TRUE
  ELSE LET rcurr  == CutAt(r, rcurr0, offset(rt, rec), ref_shape(lf, rec))
           lcurr  == CutAt(l, lcurr0, offset(lf, rec), ref_shape(lf, rec))
           lfirst == LeftFirst(lf, rt, l, r, lcurr, rcurr, rec)
           rfirst == ~lfirst /\ RightFirst(lf, rt, l, r, lcurr, rcurr, rec)
           same   == IF lfirst THEN l[lcurr].val = init(m, rt)
                     ELSE IF rfirst THEN r[rcurr].val = init(m, rt)
                     ELSE l[lcurr].val = r[rcurr].val
           lnext  == IF rfirst THEN lcurr ELSE NextNode(l, lcurr)
           rnext  == IF lfirst THEN rcurr ELSE NextNode(r, rcurr)
       IN IF ~same THEN FALSE
          ELSE EqLeaves(m, lf, rt, l, r, rec,
                        CutAt(l, lnext, offset(lf, rec), ref_shape(lf, rec)),
                        CutAt(r, rnext, offset(rt, rec), ref_shape(rt, rec)), TRUE)

EqLeaves(m, lf, rt, l, r, rec, lcurr0, rcurr0, compared) ==
  IF lcurr0 = NULL /\ rcurr0 = NULL
  THEN IF ~compared THEN init(m, lf) = init(m, rt) ELSE TRUE
  ELSE LET rcurr  == CutAt(r, rcurr0, offset(rt, rec), ref_shape(lf, rec))
           lcurr  == CutAt(l, lcurr0, offset(lf, rec), ref_shape(lf, rec))
           lfirst == LeftFirst(lf, rt, l, r, lcurr, rcurr, rec)
           rfirst == ~lfirst /\ RightFirst(lf, rt, l, r, lcurr, rcurr, rec)
           same   == IF lfirst THEN l[lcurr].val = init(m, rt)
                     ELSE IF rfirst THEN r[rcurr].val = init(m, lf)
                     ELSE l[lcurr].val = r[rcurr].val
           lnext  == IF rfirst THEN lcurr ELSE NextNode(l, lcurr)
           rnext  == IF lfirst THEN rcurr ELSE NextNode(r, rcurr)
       IN IF ~same THEN FALSE
          ELSE EqLeaves(m, lf, rt, l, r, rec,
                        CutAt(l, lnext, offset(lf, rec), ref_shape(lf, rec)),
                        CutAt(r, rnext, offset(rt, rec), ref_shape(rt, rec)), TRUE)

eqeq_r(m, lf, rt, l, r, rec) ==
  LET lcurr == CutAt(l, SkipBelow(l, First(l), offset(lf, rec)), offset(lf, rec), ref_shape(lf, rec))
      rcurr == CutAt(r, SkipBelow(r, First(r), offset(rt, rec)), offset(rt, rec), ref_shape(lf, rec))
  IN IF rec > 0 THEN EqRanks(m, lf, rt, l, r, rec, lcurr, rcurr, FALSE)
     ELSE EqLeaves(m, lf, rt, l, r, rec, lcurr, rcurr, FALSE)

nm_list_storage_eqeq(m, lhs, rhs) ==
  LET ldata == RecurseData(m, lhs, Qnil)
      rdata == RecurseData(m, rhs, Qnil)
  IN eqeq_r(m, ldata, rdata, top_level_list(m, ldata), top_level_list(m, rdata), ldata.dim - 1)

(***************************************************************************)
(* Merged map: map_empty_stored_r, map_merged_stored_r,                    *)
(* nm_list_map_merged_stored.  The block is one of Blocks.                 *)
(***************************************************************************)
Blocks == {"pair", "sum"}

\* rb_yield_values(2, a, b): what the block returns for two Integers.
Yield(block, a, b) ==
  IF block = "pair" THEN <<a[1], b[1]>> ELSE <<(a[1] + b[1]) % 3>>

RECURSIVE map_empty_stored_r(_, _, _, _, _, _, _, _, _)
RECURSIVE MapEmptyRanks(_, _, _, _, _, _, _, _, _, _, _)
MapEmptyRanks(m, block, result, s, x, xcurr, l, rec, rev, t_init, curr) ==
  IF curr = NULL THEN x
  ELSE LET off == offset(result, rec)
           val == map_empty_stored_r(m, block, result, s, list_create, l[curr].val,
                                     rec - 1, rev, t_init)
           x1  == IF Len(val) = 0 THEN x
                  ELSE list_insert_helper(x, xcurr, l[curr].key - off, val).list
       IN MapEmptyRanks(m, block, result, s, x1, xcurr, l, rec, rev, t_init,
                        CutAt(l, NextNode(l, curr), off, ref_shape(result, rec)))

RECURSIVE MapEmptyLeaves(_, _, _, _, _, _, _, _, _, _, _)
MapEmptyLeaves(m, block, result, s, x, xcurr, l, rec, rev, t_init, curr) ==
  IF curr = NULL THEN x
  ELSE LET off   == offset(result, rec)
           s_val == rubyobj_from_cval(l[curr].val, s.dtype)
           val   == IF rev THEN Yield(block, t_init, s_val) ELSE Yield(block, s_val, t_init)
           at    == IF val # result.init_obj_
                    THEN list_insert_helper(x, xcurr, l[curr].key - off, val)
                    ELSE [list |-> x, node |-> xcurr]
       IN MapEmptyLeaves(m, block, result, s, at.list, at.node, l, rec, rev, t_init,
                         CutAt(l, NextNode(l, curr), off, ref_shape(result, rec)))

map_empty_stored_r(m, block, result, s, x, l, rec, rev, t_init) ==
  LET off  == offset(result, rec)
      curr == CutAt(l, SkipBelow(l, First(l), off), off, ref_shape(result, rec))
  IN IF rec > 0 THEN MapEmptyRanks(m, block, result, s, x, NULL, l, rec, rev, t_init, curr)
     ELSE MapEmptyLeaves(m, block, result, s, x, NULL, l, rec, rev, t_init, curr)

RECURSIVE map_merged_stored_r(_, _, _, _, _, _, _, _, _)
RECURSIVE MapMergedRanks(_, _, _, _, _, _, _, _, _, _, _, _)
MapMergedRanks(m, block, result, lf, rt, x, xcurr, l, r, rec, lcurr, rcurr) ==
  IF lcurr = NULL /\ rcurr = NULL THEN x
  ELSE LET lfirst == LeftFirst(lf, rt, l, r, lcurr, rcurr, rec)
           rfirst == ~lfirst /\ RightFirst(lf, rt, l, r, lcurr, rcurr, rec)
           val == IF lfirst
                  THEN map_empty_stored_r(m, block, result, lf, list_create, l[lcurr].val,
                                          rec - 1, FALSE, rt.init_obj_)
                  ELSE IF rfirst
                  THEN map_empty_stored_r(m, block, result, rt, list_create, r[rcurr].val,
                                          rec - 1, TRUE, lf.init_obj_)
                  ELSE map_merged_stored_r(m, block, result, lf, rt, list_create,
                                           l[lcurr].val, r[rcurr].val, rec - 1)
           key == IF rfirst THEN r[rcurr].key - offset(rt, rec)
                  ELSE l[lcurr].key - offset(lf, rec)
           at  == IF Len(val) = 0 THEN [list |-> x, node |-> xcurr]
                  ELSE list_insert_helper(x, xcurr, key, val)
           lnext == IF rfirst THEN lcurr ELSE NextNode(l, lcurr)
           rnext == IF lfirst THEN rcurr ELSE NextNode(r, rcurr)
       IN MapMergedRanks(m, block, result, lf, rt, at.list, at.node, l, r, rec,
                         CutAt(l, lnext, offset(lf, rec), ref_shape(result, rec)),
                         CutAt(r, rnext, offset(rt, rec), ref_shape(result, rec)))

RECURSIVE MapMergedLeaves(_, _, _, _, _, _, _, _, _, _, _, _)
\* The leaf loop of map_merged_stored_r inserting every value, the result's default too.
MapMergedLeaves_InsertsAll(m, block, result, lf, rt, x, xcurr, l, r, rec, lcurr, rcurr) ==
  IF lcurr = NULL /\ rcurr = NULL THEN x
  ELSE LET lfirst == LeftFirst(lf, rt, l, r, lcurr, rcurr, rec)
           rfirst == ~lfirst /\ RightFirst(lf, rt, l, r, lcurr, rcurr, rec)
           val == IF lfirst
                  THEN Yield(block, rubyobj_from_cval(l[lcurr].val, lf.dtype), rt.init_obj_)
                  ELSE IF rfirst
                  THEN Yield(block, lf.init_obj_, rubyobj_from_cval(r[rcurr].val, rt.dtype))
                  ELSE Yield(block, rubyobj_from_cval(l[lcurr].val, lf.dtype),
                                    rubyobj_from_cval(r[rcurr].val, rt.dtype))
           key == IF rfirst THEN r[rcurr].key - offset(rt, rec)
                  ELSE l[lcurr].key - offset(lf, rec)
           at  == list_insert_helper(x, xcurr, key, val)
           lnext == IF rfirst THEN lcurr ELSE NextNode(l, lcurr)
           rnext == IF lfirst THEN rcurr ELSE NextNode(r, rcurr)
       IN MapMergedLeaves(m, block, result, lf, rt, at.list, at.node, l, r, rec,
                          CutAt(l, lnext, offset(lf, rec), ref_shape(result, rec)),
                          CutAt(r, rnext, offset(rt, rec), ref_shape(result, rec)))

MapMergedLeaves(m, block, result, lf, rt, x, xcurr, l, r, rec, lcurr, rcurr) ==
  IF lcurr = NULL /\ rcurr = NULL THEN x
  ELSE LET lfirst == LeftFirst(lf, rt, l, r, lcurr, rcurr, rec)
           rfirst == ~lfirst /\ RightFirst(lf, rt, l, r, lcurr, rcurr, rec)
           val == IF lfirst
                  THEN Yield(block, rubyobj_from_cval(l[lcurr].val, lf.dtype), rt.init_obj_)
                  ELSE IF rfirst
                  THEN Yield(block, lf.init_obj_, rubyobj_from_cval(r[rcurr].val, rt.dtype))
                  ELSE Yield(block, rubyobj_from_cval(l[lcurr].val, lf.dtype),
                                    rubyobj_from_cval(r[rcurr].val, rt.dtype))
           key == IF rfirst THEN r[rcurr].key - offset(rt, rec)
                  ELSE l[lcurr].key - offset(lf, rec)
           at  == IF val # result.init_obj_ THEN list_insert_helper(x, xcurr, key, val)
                  ELSE [list |-> x, node |-> xcurr]
           lnext == IF rfirst THEN lcurr ELSE NextNode(l, lcurr)
           rnext == IF lfirst THEN rcurr ELSE NextNode(r, rcurr)
       IN MapMergedLeaves(m, block, result, lf, rt, at.list, at.node, l, r, rec,
                          CutAt(l, lnext, offset(lf, rec), ref_shape(result, rec)),
                          CutAt(r, rnext, offset(rt, rec), ref_shape(result, rec)))

map_merged_stored_r(m, block, result, lf, rt, x, l, r, rec) ==
  LET lcurr == CutAt(l, SkipBelow(l, First(l), offset(lf, rec)), offset(lf, rec),
                     ref_shape(result, rec))
      rcurr == CutAt(r, SkipBelow(r, First(r), offset(rt, rec)), offset(rt, rec),
                     ref_shape(result, rec))
  IN IF rec > 0
     THEN MapMergedRanks(m, block, result, lf, rt, x, First(x), l, r, rec, lcurr, rcurr)
     ELSE MapMergedLeaves(m, block, result, lf, rt, x, First(x), l, r, rec, lcurr, rcurr)

\* nm_list_map_merged_stored with a matrix on the right: [mem, ret], ret the new storage.
nm_list_map_merged_stored(m, block, lhs, rhs, init_arg) ==
  LET sdata == RecurseData(m, lhs, Qnil)
      tdata == RecurseData(m, rhs, Qnil)
      ini   == IF init_arg = Qnil THEN Yield(block, sdata.init_obj_, tdata.init_obj_)
               ELSE init_arg
      m1    == AllocVal(m, ini)
      m2    == nm_list_storage_create(m1, RUBYOBJ, memcpy(sdata.shape_, sdata.dim),
                                      m.stor[lhs].dim, LastVal(m1))
      res   == LastStor(m2)
      rdata == RecurseData(m2, res, ini)
      x     == map_merged_stored_r(m2, block, rdata, sdata, tdata, top_level_list(m2, rdata),
                                   top_level_list(m2, sdata), top_level_list(m2, tdata),
                                   sdata.dim - 1)
  IN [mem |-> [m2 EXCEPT !.lists[m2.stor[res].rows] = x], ret |-> res]

(***************************************************************************)
(* What a storage denotes, read without the code's traversals.             *)
(***************************************************************************)
\* The stored leaves of a list as <<keys, value>> pairs; depth is dim - 1 at the top.
RECURSIVE Leaves(_, _, _)
Leaves(l, depth, prefix) ==
  UNION {IF depth = 0 THEN {<<Append(prefix, l[i].key), l[i].val>>}
         ELSE Leaves(l[i].val, depth - 1, Append(prefix, l[i].key)) : i \in 1..Len(l)}

StoredLeaves(m, s) == Leaves(Rows(m, s), m.stor[s].dim - 1, << >>)

\* Whether a node above the leaves holds an empty sublist.
RECURSIVE HasEmptySublist(_, _)
HasEmptySublist(l, depth) ==
  depth > 0 /\ \E i \in 1..Len(l) : Len(l[i].val) = 0 \/ HasEmptySublist(l[i].val, depth - 1)

\* Whether the keys increase strictly in the list and in every sublist.
RECURSIVE KeysIncrease(_, _)
KeysIncrease(l, depth) ==
  /\ \A i \in 1..(Len(l) - 1) : l[i].key < l[i + 1].key
  /\ depth > 0 => \A i \in 1..Len(l) : KeysIncrease(l[i].val, depth - 1)

\* The value a storage has at a reference index: the leaf stored at key index + offset
\* on every axis of the rows it points to, or the default.
LogicalValue(m, s, idx) ==
  LET st   == m.stor[s]
      hits == {leaf \in StoredLeaves(m, s) :
                 \A i \in 1..st.dim : leaf[1][i] = idx[i] + st.offset[i]}
  IN IF hits = {} THEN DefaultVal(m, s) ELSE (CHOOSE leaf \in hits : TRUE)[2]

\* The stored leaves inside a storage's reference range, as <<reference index, value>>.
InRangeLeaves(m, s) ==
  LET st == m.stor[s]
  IN {<<[i \in 1..st.dim |-> leaf[1][i] - st.offset[i]], leaf[2]>> :
        leaf \in {lf \in StoredLeaves(m, s) :
                    \A i \in 1..st.dim : /\ lf[1][i] >= st.offset[i]
                                         /\ lf[1][i] - st.offset[i] < st.shape[i]}}

\* The row-major rank of an index tuple, and the index tuples of a shape in that order.
RECURSIVE Rank(_, _, _)
Rank(idx, shape, i) ==
  IF i > Len(shape) THEN 0 ELSE idx[i] * Product(shape, i + 1) + Rank(idx, shape, i + 1)

RowMajor(shape) ==
  [k \in 1..Product(shape, 1) |-> CHOOSE idx \in Indices(shape) : Rank(idx, shape, 1) = k - 1]

\* A set of <<index, value>> pairs as the sequence of increasing row-major rank.
ByRank(S, shape) ==
  [k \in 1..Cardinality(S) |->
     CHOOSE e \in S : Cardinality({f \in S : Rank(f[1], shape, 1) < Rank(e[1], shape, 1)}) = k - 1]

\* The argument list <<value, i, j, ...>> of one yield.
YieldArgs(dtype, val, idx) ==
  <<rubyobj_from_cval(val, dtype)>> \o [i \in 1..Len(idx) |-> idx[i]]

(***************************************************************************)
(* The access protocol on one owning storage: create, then set and reads.  *)
(***************************************************************************)
AccessDTypes == {BYTE, INT16, INT32, FLOAT32}

Init ==
  /\ \E dtype \in AccessDTypes, shape \in Shapes(MaxCells), d \in {<<0>>, <<1>>} :
       mem = nm_list_storage_create(AllocVal(EmptyMem, rubyobj_to_cval(d, dtype)),
                                    dtype, shape, Len(shape), 1)
  /\ left = 1
  /\ right = NULL
  /\ out = [op |-> "create"]
  /\ handles = {1}

\* nm_list_storage_set on storage s with a scalar right-hand side.
SetOn(s, slice, rhs) ==
  /\ SetRaises(rhs) = "none"
  /\ LET st  == mem.stor[s]
         val == rubyobj_to_cval(rhs.value, st.dtype)
     IN \E remove \in MemcmpEqual(val, DefaultVal(mem, s), SetCompareLength(st.dtype)) :
          /\ mem' = SetScalar(mem, s, slice, val, remove)
          /\ out' = [op |-> "set", raised |-> "none", remove |-> remove,
                     isdefault |-> val = DefaultVal(mem, s),
                     changed |-> Rows(mem', s) # Rows(mem, s)]
  /\ UNCHANGED <<left, right, handles>>

Set(slice, rhs) == SetOn(left, slice, rhs)

\* nm_list_storage_set with a wrapped data object emptying the rows before it raises.
SetRejected_ClearsRows(rhs) ==
  /\ SetRaises(rhs) # "none"
  /\ mem' = [mem EXCEPT !.lists[mem.stor[left].rows] = list_create]
  /\ out' = [op |-> "set", raised |-> SetRaises(rhs), remove |-> FALSE,
             isdefault |-> FALSE, changed |-> FALSE]
  /\ UNCHANGED <<left, right, handles>>

\* nm_list_storage_set with a wrapped data object: the raise leaves everything as it was.
SetRejected(rhs) ==
  /\ SetRaises(rhs) # "none"
  /\ out' = [op |-> "set", raised |-> SetRaises(rhs), remove |-> FALSE,
             isdefault |-> FALSE, changed |-> FALSE]
  /\ UNCHANGED <<mem, left, right, handles>>

\* A single read, by get or by ref.
GetSingle(coords) ==
  /\ out' = [op |-> "get", ret |-> nm_list_storage_get(mem, left, SingleSlice(coords)).ret]
  /\ UNCHANGED <<mem, left, right, handles>>

Next ==
  \/ \E slice \in Slices(mem.stor[left].shape), rhs \in RightValues : Set(slice, rhs)
  \/ \E rhs \in RightValues : SetRejected(rhs)
  \/ \E coords \in Indices(mem.stor[left].shape) : GetSingle(coords)

Spec == Init /\ [][Next]_vars


(***************************************************************************)
(* Claims about the access protocol (specification Spec).                  *)
(***************************************************************************)
\* C1: after any sequence of create and set calls with scalar right-hand sides, no
\* stored leaf holds a value byte-equal, over the dtype's size, to the storage's
\* default, and a set whose converted scalar equals the default removes the slice
\* range instead of storing the value.
C1_NoStoredDefault ==
  /\ \A leaf \in StoredLeaves(mem, left) : leaf[2] # DefaultVal(mem, left)
  /\ (out.op = "set" /\ out.isdefault) => out.remove

\* C6: set(s, slice, default) followed by a single read, by get or by ref, at any
\* coordinate inside the slice returns the default, whatever was stored there before.
C6_SetDefaultThenReadDefault ==
  [][(out'.op = "set" /\ out'.isdefault) =>
       \A rhs \in {r \in RightValues : SetRaises(r) = "none"} :
         rubyobj_to_cval(rhs.value, mem.stor[left].dtype) = DefaultVal(mem, left) =>
           \A slice \in Slices(mem.stor[left].shape) :
             Set(slice, rhs) =>
               \A c \in CoordsIn(slice) :
                 /\ nm_list_storage_get(mem', left, SingleSlice(c)).ret = DefaultVal(mem', left)
                 /\ nm_list_storage_ref(mem', left, SingleSlice(c)).ret = DefaultVal(mem', left)]_vars

\* C6 witness: a set of the default has removed stored nodes.
C6_Witness == out.op = "set" /\ out.isdefault /\ out.changed

\* C13: set with another matrix as right-hand side fails with NotImplemented, with any
\* other wrapped data object with TypeError, and neither stores or removes anything:
\* rows, default, shape, offsets and reference count are as before the call.
C13_RejectedSetTouchesNothing ==
  [][\A rhs \in {r \in RightValues : r.type = "T_DATA"} :
       /\ SetRejected(rhs) =>
            /\ mem' = mem
            /\ out'.raised = IF rhs.dfree \in {"nm_delete", "nm_delete_ref"}
                             THEN "NotImpError" ELSE "TypeError"
       /\ \A slice \in Slices(mem.stor[left].shape) : ~Set(slice, rhs)]_vars

\* C13 witness: a matrix was refused as right-hand side on a storage that holds elements.
C13_Witness ==
  /\ out.op = "set"
  /\ out.raised = "NotImpError"
  /\ StoredLeaves(mem, left) # {}

\* C14: for a scalar v that is not equal to the default over the dtype's size,
\* set(s, slice, v) writes v to every coordinate of the slice, so that a single get
\* there returns v whether or not a node existed before, and leaves the value read at
\* every coordinate outside the slice as it was.
C14_SetWritesSliceOnly ==
  [][(out'.op = "set" /\ out'.raised = "none" /\ ~out'.isdefault) =>
       \A rhs \in {r \in RightValues : SetRaises(r) = "none"} :
         LET val == rubyobj_to_cval(rhs.value, mem.stor[left].dtype)
         IN val # DefaultVal(mem, left) =>
              \A slice \in Slices(mem.stor[left].shape) :
                Set(slice, rhs) =>
                  \A c \in Indices(mem.stor[left].shape) :
                    nm_list_storage_get(mem', left, SingleSlice(c)).ret =
                      IF c \in CoordsIn(slice) THEN val
                      ELSE nm_list_storage_get(mem, left, SingleSlice(c)).ret]_vars

(***************************************************************************)
(* Traversals of one storage: an owner is filled through set, views are    *)
(* taken of it and of its views, and the storage at hand (left) is copied, *)
(* sliced and iterated.  A call that returns a new storage leaves the      *)
(* storages of mem as they are; the heap with its result is out.mem.       *)
(***************************************************************************)
\* The views that have been taken of an owner's elements.
ViewsOnto(m, owner) ==
  Cardinality({v \in 1..Len(m.stor) : v # owner /\ m.stor[v].src = owner})

\* Whether a slice starts at zero and spans the whole shape of s.
IsFull(m, s, slice) ==
  \A i \in 1..m.stor[s].dim : slice.coords[i] = 0 /\ slice.lengths[i] = m.stor[s].shape[i]

InitOne ==
  /\ \E shape \in Shapes(MaxCells), d \in {<<0>>, <<1>>} :
       mem = nm_list_storage_create(AllocVal(EmptyMem, rubyobj_to_cval(d, INT8)),
                                    INT8, shape, Len(shape), 1)
  /\ left = 1
  /\ right = NULL
  /\ out = [op |-> "create"]
  /\ handles = {1}

\* nm_list_storage_ref with a slice that is not single: the view becomes the storage at hand.
Ref(slice) ==
  /\ ~slice.single
  /\ ViewsOnto(mem, mem.stor[left].src) < MaxViews
  /\ LET r == nm_list_storage_ref(mem, left, slice)
     IN /\ mem' = r.mem
        /\ left' = r.ret
        /\ handles' = handles \cup {r.ret}
        /\ out' = [op |-> "ref", of |-> left, ret |-> r.ret, full |-> IsFull(mem, left, slice)]
  /\ UNCHANGED right

\* nm_list_storage_copy.
Copy ==
  /\ LET r == nm_list_storage_copy(mem, left)
     IN out' = [op |-> "copy", of |-> left, mem |-> r.mem, ret |-> r.ret]
  /\ UNCHANGED <<mem, left, right, handles>>

\* nm_list_storage_get with a slice that is not single.
GetSlice(slice) ==
  /\ ~slice.single
  /\ LET r == nm_list_storage_get(mem, left, slice)
     IN out' = [op |-> "get_slice", of |-> left, slice |-> slice, mem |-> r.mem, ret |-> r.ret]
  /\ UNCHANGED <<mem, left, right, handles>>

\* nm_list_each_with_indices(nmatrix, false): out.ret is the sequence of yields.
Each ==
  /\ out' = [op |-> "each", ret |-> nm_list_each_with_indices(mem, left, FALSE)]
  /\ UNCHANGED <<mem, left, right, handles>>

\* nm_list_each_with_indices(nmatrix, true).
EachStored ==
  /\ out' = [op |-> "each_stored", ret |-> nm_list_each_with_indices(mem, left, TRUE)]
  /\ UNCHANGED <<mem, left, right, handles>>

NextOne ==
  \/ \E slice \in Slices(mem.stor[left].shape), rhs \in RightValues : Set(slice, rhs)
  \/ \E slice \in Slices(mem.stor[left].shape) : Ref(slice)
  \/ Copy
  \/ \E slice \in Slices(mem.stor[left].shape) : GetSlice(slice)
  \/ Each
  \/ EachStored

SpecOne == InitOne /\ [][NextOne]_vars

\* Whether the storage at hand is a view that starts past the owner's first element.
OffsetView(m, s) == \E i \in 1..m.stor[s].dim : m.stor[s].offset[i] > 0

(***************************************************************************)
(* Claims about the traversals of one storage (specification SpecOne).     *)
(***************************************************************************)
\* C5: every owning storage returned by a non-single get or by copy, of an owner or
\* of a view, has no node above the leaves that owns an empty sublist.
C5_NoEmptySublist ==
  out.op \in {"get_slice", "copy"} =>
    ~HasEmptySublist(Rows(out.mem, out.ret), out.mem.stor[out.ret].dim - 1)

\* C7: copy(s) of an owner or a view is an owning storage with src == self, count 1,
\* all offsets zero, the shape of s, a default equal to the default of s, and exactly
\* the stored leaves of s inside its reference range re-keyed to reference
\* coordinates; and eq(copy(s), s) is true.
C7_CopyIsOwnedImage ==
  out.op = "copy" =>
    LET c  == out.mem.stor[out.ret]
        st == mem.stor[out.of]
    IN /\ c.src = out.ret
       /\ c.count = 1
       /\ c.offset = Zeros(st.dim)
       /\ c.shape = st.shape
       /\ DefaultVal(out.mem, out.ret) = DefaultVal(mem, out.of)
       /\ StoredLeaves(out.mem, out.ret) = InRangeLeaves(mem, out.of)
       /\ nm_list_storage_eqeq(out.mem, out.ret, out.of)

\* C7 witness: the copy of a view with a non-zero offset that keeps some leaves of the
\* owner and leaves others out.
C7_Witness ==
  /\ out.op = "copy"
  /\ OffsetView(mem, out.of)
  /\ StoredLeaves(out.mem, out.ret) # {}
  /\ Cardinality(StoredLeaves(mem, out.of)) > Cardinality(InRangeLeaves(mem, out.of))

\* C9: dense each yields once for every index tuple of the reference shape, in
\* row-major order, the stored value where a node exists at key index + offset on
\* every axis and the default otherwise.
C9_EachIsDense ==
  out.op = "each" =>
    LET st == mem.stor[left]
    IN out.ret = [k \in 1..Product(st.shape, 1) |->
                    YieldArgs(st.dtype, LogicalValue(mem, left, RowMajor(st.shape)[k]),
                              RowMajor(st.shape)[k])]

\* C9 witness: each on a two-dimensional view with a non-zero offset that has both a
\* stored and an absent element.
C9_Witness ==
  /\ out.op = "each"
  /\ OffsetView(mem, left)
  /\ mem.stor[left].dim = 2
  /\ InRangeLeaves(mem, left) # {}
  /\ Cardinality(InRangeLeaves(mem, left)) < Len(out.ret)

\* C10: each_stored yields once for each stored leaf whose key minus the offset lies
\* inside the reference shape on every axis and for no other leaf, passes the
\* reference indices key - offset, and visits in increasing row-major order.
C10_EachStoredIsSparse ==
  out.op = "each_stored" =>
    LET st == mem.stor[left]
        in == ByRank(InRangeLeaves(mem, left), st.shape)
    IN out.ret = [k \in 1..Len(in) |-> YieldArgs(st.dtype, in[k][2], in[k][1])]

\* C10 witness: each_stored on a view with a non-zero offset that visits two leaves
\* and passes over a leaf outside its range.
C10_Witness ==
  /\ out.op = "each_stored"
  /\ OffsetView(mem, left)
  /\ Len(out.ret) >= 2
  /\ Cardinality(StoredLeaves(mem, left)) > Cardinality(InRangeLeaves(mem, left))

\* C11: after a non-single ref, of an owner or of a view, every storage's src is an
\* owning storage, the view shares the owner's rows and default, and the offset that
\* RecurseData computes for the view is, on every axis, the offset it computes for the
\* storage the view was taken of plus the slice's coords (zero for an owner), so the
\* coords along the chain are summed and none is counted twice.
C11_ViewsResolveToOwner ==
  [][out'.op = "ref" =>
       \A slice \in {sl \in Slices(mem.stor[left].shape) : ~sl.single} :
         Ref(slice) =>
           LET v     == left'
               owner == mem'.stor[v].src
               rd    == RecurseData(mem', v, Qnil)
               rs    == RecurseData(mem, left, Qnil)
           IN /\ \A s \in 1..Len(mem'.stor) :
                   /\ IsOwner(mem', mem'.stor[s].src)
                   /\ IsOwner(mem', s) => RecurseData(mem', s, Qnil).offsets = Zeros(mem'.stor[s].dim)
              /\ v # owner
              /\ rd.actual = owner
              /\ mem'.stor[v].rows = mem'.stor[owner].rows
              /\ mem'.stor[v].default_val = mem'.stor[owner].default_val
              /\ \A i \in 1..mem'.stor[v].dim : rd.offsets[i] = rs.offsets[i] + slice.coords[i]]_vars

\* C11 witness: a view taken of a view that starts past the owner's first element.
C11_Witness ==
  /\ out.op = "ref"
  /\ ~IsOwner(mem, out.of)
  /\ OffsetView(mem, out.of)
  /\ OffsetView(mem, out.ret)

(***************************************************************************)
(* Two operands: two owners of one shape are filled through set, a view is *)
(* taken of either, and the storages at hand (left, right) are compared    *)
(* and merged when their shapes agree.                                     *)
(***************************************************************************)
PairViews == 1     \* views taken of each operand's owner in the two-operand specification

InitPair ==
  /\ \E shape \in Shapes(MaxCells), dr \in {<<0>>, <<1>>} :
       LET m1 == nm_list_storage_create(AllocVal(EmptyMem, rubyobj_to_cval(<<0>>, INT8)),
                                        INT8, shape, Len(shape), 1)
       IN mem = nm_list_storage_create(AllocVal(m1, rubyobj_to_cval(dr, INT8)),
                                       INT8, shape, Len(shape), 2)
  /\ left = 1
  /\ right = 2
  /\ out = [op |-> "create"]
  /\ handles = {1, 2}

\* The right-hand sides the operands are filled with.
PairValues == {[type |-> "numeric", value |-> obj] : obj \in {<<0>>, <<1>>}}

SetRight(slice, rhs) == SetOn(right, slice, rhs)

\* nm_list_storage_ref of the left operand, the view taking its place.
RefLeft(slice) ==
  /\ ~slice.single
  /\ ViewsOnto(mem, mem.stor[left].src) < PairViews
  /\ LET r == nm_list_storage_ref(mem, left, slice)
     IN /\ mem' = r.mem
        /\ left' = r.ret
        /\ handles' = handles \cup {r.ret}
        /\ out' = [op |-> "ref", of |-> left, ret |-> r.ret, full |-> IsFull(mem, left, slice)]
  /\ UNCHANGED right

\* nm_list_storage_ref of the right operand.
RefRight(slice) ==
  /\ ~slice.single
  /\ ViewsOnto(mem, mem.stor[right].src) < PairViews
  /\ LET r == nm_list_storage_ref(mem, right, slice)
     IN /\ mem' = r.mem
        /\ right' = r.ret
        /\ handles' = handles \cup {r.ret}
        /\ out' = [op |-> "ref", of |-> right, ret |-> r.ret, full |-> IsFull(mem, right, slice)]
  /\ UNCHANGED left

\* nm_list_storage_eqeq(left, right).
Eq ==
  /\ mem.stor[left].shape = mem.stor[right].shape
  /\ out' = [op |-> "eq", ret |-> nm_list_storage_eqeq(mem, left, right)]
  /\ UNCHANGED <<mem, left, right, handles>>

\* nm_list_map_merged_stored(left, right, nil) with the block.
MapMerged(block) ==
  /\ mem.stor[left].shape = mem.stor[right].shape
  /\ LET r == nm_list_map_merged_stored(mem, block, left, right, Qnil)
     IN out' = [op |-> "map", block |-> block, mem |-> r.mem, ret |-> r.ret]
  /\ UNCHANGED <<mem, left, right, handles>>

\* The default a caller of map_merged supplies.
SuppliedDefaults == {<<2>>}

\* nm_list_map_merged_stored(left, right, init) with the block and a default of the caller's.
MapMergedInit(block, init_arg) ==
  /\ mem.stor[left].shape = mem.stor[right].shape
  /\ LET r == nm_list_map_merged_stored(mem, block, left, right, init_arg)
     IN out' = [op |-> "map_init", block |-> block, init |-> init_arg,
                mem |-> r.mem, ret |-> r.ret]
  /\ UNCHANGED <<mem, left, right, handles>>

NextPair ==
  \/ \E coords \in Indices(mem.stor[left].shape), rhs \in PairValues :
       Set(SingleSlice(coords), rhs)
  \/ \E coords \in Indices(mem.stor[right].shape), rhs \in PairValues :
       SetRight(SingleSlice(coords), rhs)
  \/ \E slice \in Slices(mem.stor[left].shape) : RefLeft(slice)
  \/ \E slice \in Slices(mem.stor[right].shape) : RefRight(slice)
  \/ Eq
  \/ \E block \in Blocks : MapMerged(block)
  \/ \E block \in Blocks, init_arg \in SuppliedDefaults : MapMergedInit(block, init_arg)

SpecPair == InitPair /\ [][NextPair]_vars

(***************************************************************************)
(* Claims about two operands (specification SpecPair).                     *)
(***************************************************************************)
\* C2: for two storages of the same reference shape, eq returns true if and only if
\* at every reference index the left value (stored, or the left default) equals the
\* right value (stored, or the right default).
C2_EqIffSameContent ==
  out.op = "eq" =>
    (out.ret <=> \A idx \in Indices(mem.stor[left].shape) :
                   LogicalValue(mem, left, idx) = LogicalValue(mem, right, idx))

\* C3: the result of map_merged with block f and no supplied default has, at every
\* reference index i, the value f(L[i], R[i]), L[i] and R[i] being the node stored at
\* key i + offset on every axis or that side's default.
C3_MapIsPointwise ==
  out.op = "map" =>
    \A idx \in Indices(mem.stor[left].shape) :
      LogicalValue(out.mem, out.ret, idx) =
        Yield(out.block,
              rubyobj_from_cval(LogicalValue(mem, left, idx), mem.stor[left].dtype),
              rubyobj_from_cval(LogicalValue(mem, right, idx), mem.stor[right].dtype))

\* The content of the storage a call returned: its rows, its default and its shape.
ResultContent(r) == <<Rows(r.mem, r.ret), DefaultVal(r.mem, r.ret), r.mem.stor[r.ret].shape>>

\* C8: a view created by ref with coords all zero and lengths equal to the source's
\* shape behaves as the source: eq against any storage gives the same result on
\* either side, each and each_stored yield the same sequences, and map_merged with
\* the same partner and block gives the same result content.
C8_FullViewIsSource ==
  (out.op = "ref" /\ out.full) =>
    LET v == out.ret
        s == out.of
    IN /\ nm_list_each_with_indices(mem, v, FALSE) = nm_list_each_with_indices(mem, s, FALSE)
       /\ nm_list_each_with_indices(mem, v, TRUE) = nm_list_each_with_indices(mem, s, TRUE)
       /\ \A t \in {h \in handles : mem.stor[h].shape = mem.stor[v].shape} :
            /\ nm_list_storage_eqeq(mem, v, t) = nm_list_storage_eqeq(mem, s, t)
            /\ nm_list_storage_eqeq(mem, t, v) = nm_list_storage_eqeq(mem, t, s)
            /\ \A block \in Blocks :
                 /\ ResultContent(nm_list_map_merged_stored(mem, block, v, t, Qnil))
                      = ResultContent(nm_list_map_merged_stored(mem, block, s, t, Qnil))
                 /\ ResultContent(nm_list_map_merged_stored(mem, block, t, v, Qnil))
                      = ResultContent(nm_list_map_merged_stored(mem, block, t, s, Qnil))

\* C8 witness: a full view of a two-dimensional owner that holds stored elements, with
\* another storage of its shape that holds stored elements to compare and merge with.
C8_Witness ==
  /\ out.op = "ref"
  /\ out.full
  /\ mem.stor[out.ret].dim = 2
  /\ StoredLeaves(mem, out.ret) # {}
  /\ \E t \in handles \ {out.ret, out.of} :
       /\ mem.stor[t].shape = mem.stor[out.ret].shape
       /\ StoredLeaves(mem, t) # {}
       /\ ~nm_list_storage_eqeq(mem, out.ret, t)

(***************************************************************************)
(* Lifecycle: owners are created, views are taken of owners and of views,  *)
(* and every handle is released once, an owner's by nm_list_storage_delete *)
(* and a view's by nm_list_storage_delete_ref.  handles is the set of the  *)
(* storages not yet released.                                              *)
(***************************************************************************)
InitLife ==
  /\ \E shape \in Shapes(MaxCells) :
       mem = nm_list_storage_create(AllocVal(EmptyMem, rubyobj_to_cval(<<0>>, INT8)),
                                    INT8, shape, Len(shape), 1)
  /\ left = 1
  /\ right = NULL
  /\ out = [op |-> "create"]
  /\ handles = {1}

\* nm_list_storage_create of a further owner.
Create(shape) ==
  /\ Len(mem.stor) < MaxHandles
  /\ LET m1 == AllocVal(mem, rubyobj_to_cval(<<0>>, INT8))
     IN mem' = nm_list_storage_create(m1, INT8, shape, Len(shape), LastVal(m1))
  /\ handles' = handles \cup {Len(mem.stor) + 1}
  /\ out' = [op |-> "create"]
  /\ UNCHANGED <<left, right>>

\* nm_list_storage_ref of an unreleased storage, owner or view, with a slice that is not single.
RefOf(s, slice) ==
  /\ ~slice.single
  /\ Len(mem.stor) < MaxHandles
  /\ LET r == nm_list_storage_ref(mem, s, slice)
     IN /\ mem' = r.mem
        /\ handles' = handles \cup {r.ret}
        /\ out' = [op |-> "ref", of |-> s, ret |-> r.ret, full |-> IsFull(mem, s, slice)]
  /\ UNCHANGED <<left, right>>

\* The release of an owner's handle.
DeleteOwned(s) ==
  /\ IsOwner(mem, s)
  /\ mem' = nm_list_storage_delete(mem, s)
  /\ handles' = handles \ {s}
  /\ out' = [op |-> "delete", of |-> s]
  /\ UNCHANGED <<left, right>>

\* The release of a view's handle.
DeleteView(s) ==
  /\ ~IsOwner(mem, s)
  /\ mem' = nm_list_storage_delete_ref(mem, s)
  /\ handles' = handles \ {s}
  /\ out' = [op |-> "delete_ref", of |-> s]
  /\ UNCHANGED <<left, right>>

NextLife ==
  \/ \E shape \in Shapes(MaxCells) : Create(shape)
  \/ \E s \in handles : \E slice \in Slices(mem.stor[s].shape) : RefOf(s, slice)
  \/ \E s \in handles : DeleteOwned(s)
  \/ \E s \in handles : DeleteView(s)

SpecLife == InitLife /\ [][NextLife]_vars

\* The allocations an owner's release frees besides the struct.
OwnedParts(m, o) ==
  {<<"rows", m.stor[o].rows>>, <<"shape", o>>, <<"offset", o>>,
   <<"default_val", m.stor[o].default_val>>}

\* The unreleased handles onto an owner: its own and those of its views.
LiveHandles(m, o) == {h \in handles : m.stor[h].src = o}

(***************************************************************************)
(* Claims about the lifecycle (specification SpecLife).                    *)
(***************************************************************************)
\* C4: with every handle released at most once, an owner's count is the number of
\* unreleased handles onto it, the owner's and its views', and the owner's rows,
\* shape, offset and default are freed exactly when that count is zero, never while
\* a view is unreleased.
C4_CountGuardsOwner ==
  \A o \in {s \in 1..Len(mem.stor) : IsOwner(mem, s)} :
    /\ mem.stor[o].count = Cardinality(LiveHandles(mem, o))
    /\ \A part \in OwnedParts(mem, o) : part \in mem.freed <=> mem.stor[o].count = 0
    /\ (\E v \in LiveHandles(mem, o) : v # o) => OwnedParts(mem, o) \cap mem.freed = {}

\* C4 witness: the release of the last view, taken of another view, frees an owner
\* whose own handle was released before.
C4_Witness ==
  /\ out.op = "delete_ref"
  /\ ViewsOnto(mem, mem.stor[out.of].src) >= 2
  /\ mem.stor[out.of].offset # Zeros(mem.stor[out.of].dim)
  /\ OwnedParts(mem, mem.stor[out.of].src) \subseteq mem.freed

\* C12: two storages of the same shape that both have no stored node inside their
\* reference range, empty owners or views whose range holds no stored node, are equal
\* under eq if and only if their default values are equal.
C12_EmptyEqIffDefaults ==
  (/\ out.op = "eq"
   /\ InRangeLeaves(mem, left) = {}
   /\ InRangeLeaves(mem, right) = {}) =>
    (out.ret <=> DefaultVal(mem, left) = DefaultVal(mem, right))

\* C15: the storage map_merged returns is an owning storage of Ruby objects whose
\* default is f(L.default, R.default) when no default is supplied and the supplied one
\* otherwise, in which no stored leaf equals that default and no node above the leaves
\* owns an empty sublist.
C15_MapResultIsNormal ==
  out.op \in {"map", "map_init"} =>
    LET m  == out.mem
        st == m.stor[out.ret]
    IN /\ st.src = out.ret
       /\ st.count = 1
       /\ st.dtype = RUBYOBJ
       /\ st.offset = Zeros(st.dim)
       /\ DefaultVal(m, out.ret) =
            IF out.op = "map_init" THEN out.init
            ELSE Yield(out.block,
                       rubyobj_from_cval(DefaultVal(mem, left), mem.stor[left].dtype),
                       rubyobj_from_cval(DefaultVal(mem, right), mem.stor[right].dtype))
       /\ \A leaf \in StoredLeaves(m, out.ret) : leaf[2] # DefaultVal(m, out.ret)
       /\ ~HasEmptySublist(Rows(m, out.ret), st.dim - 1)

\* C15 witness: a merge of two-dimensional operands that both hold elements in range,
\* in which every value the block gave equals the result's default, so that the row
\* built for them stayed empty and was not inserted.
C15_Witness ==
  /\ out.op = "map"
  /\ mem.stor[left].dim = 2
  /\ InRangeLeaves(mem, left) # {}
  /\ InRangeLeaves(mem, right) # {}
  /\ Rows(out.mem, out.ret) = list_create

\* C17: eq is symmetric: whenever eq has compared the two operands (owners or views of
\* one reference shape, equal or different defaults), comparing them the other way
\* round returns the same.
C17_EqSymmetric ==
  out.op = "eq" => out.ret = nm_list_storage_eqeq(mem, right, left)

\* C17 witness: eq returned true for operands with different defaults where the left is
\* a view with an offset and holds nodes in its range and the right holds none.
C17_Witness ==
  /\ out.op = "eq"
  /\ out.ret
  /\ OffsetView(mem, left)
  /\ DefaultVal(mem, left) # DefaultVal(mem, right)
  /\ InRangeLeaves(mem, left) # {}
  /\ InRangeLeaves(mem, right) = {}

(***************************************************************************)
(* Key order: two owners of one shape; the left is written by set over     *)
(* slices, raw insert and remove, the right by set; views are taken of     *)
(* either and the storages at hand are copied, sliced and merged.          *)
(***************************************************************************)
InitKeys ==
  /\ \E shape \in Shapes(MaxCells) :
       LET m1 == nm_list_storage_create(AllocVal(EmptyMem, rubyobj_to_cval(<<0>>, INT8)),
                                        INT8, shape, Len(shape), 1)
       IN mem = nm_list_storage_create(AllocVal(m1, rubyobj_to_cval(<<0>>, INT8)),
                                       INT8, shape, Len(shape), 2)
  /\ left = 1
  /\ right = 2
  /\ out = [op |-> "create"]
  /\ handles = {1, 2}

\* nm_list_storage_insert of a value into the left operand.
Insert(coords, val) ==
  /\ mem' = nm_list_storage_insert(mem, left, SingleSlice(coords), val)
  /\ out' = [op |-> "insert"]
  /\ UNCHANGED <<left, right, handles>>

\* nm_list_storage_remove of a slice of the left operand.
Remove(slice) ==
  /\ mem' = nm_list_storage_remove(mem, left, slice)
  /\ out' = [op |-> "remove"]
  /\ UNCHANGED <<left, right, handles>>

NextKeys ==
  \/ \E slice \in Slices(mem.stor[left].shape), rhs \in PairValues : Set(slice, rhs)
  \/ \E coords \in Indices(mem.stor[right].shape), rhs \in PairValues :
       SetRight(SingleSlice(coords), rhs)
  \/ \E coords \in Indices(mem.stor[left].shape) : Insert(coords, rubyobj_to_cval(<<1>>, INT8))
  \/ \E slice \in Slices(mem.stor[left].shape) : Remove(slice)
  \/ \E slice \in Slices(mem.stor[left].shape) : RefLeft(slice)
  \/ \E slice \in Slices(mem.stor[right].shape) : RefRight(slice)
  \/ Copy
  \/ \E slice \in Slices(mem.stor[left].shape) : GetSlice(slice)
  \/ \E block \in Blocks : MapMerged(block)

SpecKeys == InitKeys /\ [][NextKeys]_vars

(***************************************************************************)
(* Claims about key order (specification SpecKeys).                        *)
(***************************************************************************)
\* C16: after any sequence of set, raw insert, remove, get, copy and map_merged the
\* keys of every list at every depth increase strictly, in the rows of every storage
\* and in the rows of the storage that get, copy or map_merged returned.
C16_KeysIncrease ==
  /\ \A s \in 1..Len(mem.stor) : KeysIncrease(Rows(mem, s), mem.stor[s].dim - 1)
  /\ out.op \in {"get_slice", "copy", "map"} =>
       KeysIncrease(Rows(out.mem, out.ret), out.mem.stor[out.ret].dim - 1)

\* C16 witness: a set of a value over a slice has written into a two-dimensional
\* storage that now has several rows.
C16_Witness ==
  /\ out.op = "set"
  /\ ~out.remove
  /\ out.changed
  /\ mem.stor[left].dim = 2
  /\ Len(Rows(mem, left)) >= 2

=============================================================================
